---- MODULE Spec2Model ----
(***************************************************************************)
(* Batch service-assignment pages of FisherTools: the calendar multi-select *)
(* variant (src/unnamed/part_004) and the weekday-rule variant              *)
(* (src/unnamed/part_005), both named BatchAssignmentClient.                *)
(*                                                                          *)
(* Strings of the source are modelled as follows.  An ISO date string       *)
(* "YYYY-MM-DD" is the tuple <<y, m, d>>; the empty string of a cleared     *)
(* date input is <<>>.  The default string order that Array.prototype.sort  *)
(* uses is, on such equal-width strings, the lexicographic order of the     *)
(* tuples.  A JavaScript Date is its time value in hours since              *)
(* 1970-01-01T00:00Z (every instant the pages build is a whole hour), and   *)
(* the browser's time zone is the state variable tz (hours east of UTC; a   *)
(* fixed offset, daylight-saving changes are not modelled).  The user       *)
(* message texts, which are Chinese in the source, are rendered in ASCII.   *)
(*                                                                          *)
(* The pages are modelled at two levels.  Spec follows one page instance    *)
(* from its construction through every edit of its form; of a commit it     *)
(* keeps that a call is awaited (pending).  SpecCommit follows the commit   *)
(* of a page whose form is given: the insert requests in flight with their  *)
(* rows, the table service_assignments, and the counts of confirm clicks,   *)
(* calls and navigations.  SpecRotation evaluates the rotation as a         *)
(* function of drawn inputs.                                                *)
(*                                                                          *)
(* The leave service (src/unnamed/part_015) is modelled by SpecLeave, in    *)
(* which every service function runs from its call to its return as one    *)
(* step, and by SpecLeaveRace, in which the select and the update of a      *)
(* review or cancel call are separate steps that calls in flight            *)
(* interleave.  A null column is the string Null.                           *)
(*                                                                          *)
(* The middleware (src/middleware.ts) is modelled by SpecMiddleware: a      *)
(* request, the response the middleware gives it, and the browser following *)
(* a redirect with the session unchanged.  A path is the sequence of its    *)
(* characters, so that startsWith is the prefix test it is in the source.   *)
(***************************************************************************)
EXTENDS Integers, Sequences, FiniteSets, TLC

VARIABLES
    variant,            \* "calendar" (part_004) or "weekday" (part_005)
    tz,                 \* environment: browser time zone, hours east of UTC
    now,                \* environment: the time value new Date() returns
    phase,              \* "loading" | "ready" | "left" (page), "input" | "evaluated"
    orgId,              \* useState orgId ("" until the profile is loaded)
    serviceTypes,       \* useState: loaded service type ids, name order
    members,            \* useState: loaded members [id, name], name order
    error,              \* useState error
    submitting,         \* useState submitting
    pending,            \* a createBatchServiceAssignments call is awaited
    serviceTypeId,      \* useState serviceTypeId ("" = none)
    monthCount,         \* useState monthCount (calendar)
    calendarDates,      \* useMemo calendarDates (calendar)
    selectedDates,      \* useState Set<string>, in insertion order (calendar)
    startDate,          \* useState startDate (weekday)
    endDate,            \* useState endDate (weekday)
    dayOfWeek,          \* useState dayOfWeek (weekday)
    showPreview,        \* useState showPreview (weekday)
    selectedMemberIds,  \* useState selectedMemberIds: the roster
    previewAssignments, \* useMemo previewAssignments
    toggledOdd,         \* history: the dates toggled an odd number of times
    checkRank,          \* history: rank of each checked member by last check
    requests,           \* the insert requests in flight, each a list of rows
    store,              \* the rows of the table service_assignments
    otherCommits,       \* the batches other page instances have persisted
    attempt,            \* history: the rows mapped by the commit in progress
    thrown,             \* history: <<message>> if the last call threw, else <<>>
    confirms,           \* history: clicks on the confirm button
    calls,              \* history: insert requests issued by the page
    navigations,        \* history: calls of router.push("/services")
    leave_requests,     \* the rows of the table leave_requests, by id
    leave_quotas,       \* the rows of the table leave_quotas
    leaveCalls,         \* review and cancel calls between select and update
    leaveThrown,        \* the message the last leave call threw, "" if none
    leaveReturned,      \* what the last leave call returned, <<>> if nothing
    req,                \* the request: pathname, search parameters, session
    response,           \* the response to req: awaited, next or redirect
    hops                \* history: redirects followed since the navigation

vars == <<variant, tz, now, phase, serviceTypes, members, error, submitting, pending,
          serviceTypeId, monthCount, calendarDates, selectedDates, startDate,
          endDate, dayOfWeek, showPreview, selectedMemberIds,
          previewAssignments, toggledOdd, checkRank, orgId, requests, store,
          otherCommits, attempt, thrown, confirms, calls, navigations,
          leave_requests, leave_quotas, leaveCalls, leaveThrown, leaveReturned,
          req, response, hops>>

(***************************************************************************)
(* Bounds of the model.                                                     *)
(***************************************************************************)
\* how many cells of the calendar grid the user clicks on
MaxPicks == 3
\* how many ids a roster given to the rotation as a bare input may hold
MaxRoster == 3
\* how many times the confirm button of one page instance is clicked
MaxConfirms == 2
\* how many batches other page instances persist
MaxOtherCommits == 1
\* how many leave requests are submitted
MaxLeaveRequests == 2
\* how many review and cancel calls are in flight at once
MaxInFlight == 2

(***************************************************************************)
(* Sequences.                                                               *)
(***************************************************************************)
Range(s) == {s[i] : i \in DOMAIN s}

Includes(s, x) == \E i \in DOMAIN s : s[i] = x

NoDuplicates(s) == \A i, j \in DOMAIN s : i # j => s[i] # s[j]

\* Array.prototype.filter((id) => id !== x)
FilterOut(s, x) == SelectSeq(s, LAMBDA e : e # x)

\* every sequence without repetition over S, up to length n
RECURSIVE DistinctSeqs(_, _)
DistinctSeqs(S, n) ==
    IF n = 0 THEN {<<>>}
    ELSE LET shorter == DistinctSeqs(S, n - 1)
         IN  shorter \cup {Append(s, x) : s \in shorter, x \in S}

DistinctSeqsOf(S, n) == {s \in DistinctSeqs(S, n) : NoDuplicates(s)}

(***************************************************************************)
(* JavaScript Date.                                                         *)
(***************************************************************************)
\* the time value of an Invalid Date (NaN): every comparison with it is false
NaN == -1

\* days from 1970-01-01 to the civil date y-m-d (proleptic Gregorian)
DaysFromCivil(y, m, d) ==
    LET yy  == IF m <= 2 THEN y - 1 ELSE y
        era == yy \div 400
        yoe == yy - era * 400
        mp  == IF m > 2 THEN m - 3 ELSE m + 9
        doy == (153 * mp + 2) \div 5 + d - 1
        doe == yoe * 365 + yoe \div 4 - yoe \div 100 + doy
    IN  era * 146097 + doe - 719468

\* the civil date <<y, m, d>> of day number z
CivilFromDays(z) ==
    LET zz  == z + 719468
        era == zz \div 146097
        doe == zz - era * 146097
        yoe == (doe - doe \div 1460 + doe \div 36524 - doe \div 146096) \div 365
        doy == doe - (365 * yoe + yoe \div 4 - yoe \div 100)
        mp  == (5 * doy + 2) \div 153
        d   == doy - (153 * mp + 2) \div 5 + 1
        m   == IF mp < 10 THEN mp + 3 ELSE mp - 9
        y   == yoe + era * 400
    IN  <<IF m <= 2 THEN y + 1 ELSE y, m, d>>

\* new Date("YYYY-MM-DD"): a date-only ISO string is midnight UTC; "" is invalid
ParseDate(s) == IF s = <<>> THEN NaN ELSE 24 * DaysFromCivil(s[1], s[2], s[3])

\* new Date(year, month, day): midnight of that day in the local time of zone
LocalMidnight(zone, y, m, d) == 24 * DaysFromCivil(y, m, d) - zone

\* date.toISOString().split("T")[0]: the UTC calendar date
ToISODate(t) == CivilFromDays(t \div 24)

\* getFullYear(), getMonth() + 1, getDate(): the calendar date in local time
LocalDate(zone, t) == CivilFromDays((t + zone) \div 24)

\* Date.prototype.getDay(): the day of the week in local time, 0 = Sunday
GetDay(zone, t) == (((t + zone) \div 24) + 4) % 7

\* d.setDate(d.getDate() + 1): the same local time on the next local day
NextDay(t) == t + 24

\* new Date(year, month + 1, 0).getDate()
DaysInMonth(y, m) ==
    IF m = 12 THEN 31 ELSE DaysFromCivil(y, m + 1, 1) - DaysFromCivil(y, m, 1)

\* the default order of Array.prototype.sort on ISO date strings
IsoLess(a, b) ==
    \/ a[1] < b[1]
    \/ a[1] = b[1] /\ a[2] < b[2]
    \/ a[1] = b[1] /\ a[2] = b[2] /\ a[3] < b[3]

RECURSIVE InsertSorted(_, _)
InsertSorted(s, x) ==
    IF s = <<>> THEN <<x>>
    ELSE IF IsoLess(x, Head(s)) THEN <<x>> \o s
    ELSE <<Head(s)>> \o InsertSorted(Tail(s), x)

RECURSIVE SortStrings(_)
SortStrings(s) ==
    IF s = <<>> THEN <<>> ELSE InsertSorted(SortStrings(Tail(s)), Head(s))

(***************************************************************************)
(* The environment: what the browser and the store hand to the pages.       *)
(***************************************************************************)
\* browser time zones: New York (winter), UTC, Shanghai
TZOffsets == {0 - 5, 0, 8}

\* new Date(): 2025-01-31T20:00Z, when the local month is January in New York
\* and in UTC and already February in Shanghai
Nows == {24 * DaysFromCivil(2025, 1, 31) + 20}

\* fetchServiceTypes: the active service types of the organisation
TypeLists == {<<>>, <<"t1", "t2">>}

\* fetchMembers: the active members, ordered by name (ids are not in name
\* order; the members page stores trimmed, non-empty names only)
LoadedMembers == <<[id |-> "m3", name |-> "Ann"], [id |-> "m1", name |-> "Bob"],
                   [id |-> "m2", name |-> "Cy"]>>

MemberLists == {<<>>, LoadedMembers}

\* member ids, "m9" being the id of no loaded member
MemberIds == {"m1", "m2", "m3", "m9"}

\* the values the user gives the two date inputs ("" when cleared)
DateInputs == {<<>>, <<2025, 1, 1>>, <<2025, 1, 31>>}

\* the options of the weekday select the user picks: Sunday, Tuesday, Wednesday
WeekdayInputs == {0, 2, 3}

\* the cells of the calendar grid the user clicks on, by position
PickCells == {1 + 47 * k : k \in 0 .. MaxPicks - 1}

\* the messages of a rejected bulk insert ("" stands for an error without one)
StoreErrors == {"", "duplicate key value"}

\* the label of a roster id that members.find does not find
Placeholder == "unknown"

\* profile.orgId of the administrator who opened the page
ProfileOrgId == "org1"

(***************************************************************************)
(* part_005: generateDates.                                                 *)
(***************************************************************************)
\* for (let d = new Date(start); d <= end; d.setDate(d.getDate() + 1))
RECURSIVE generateDatesLoop(_, _, _, _, _)
generateDatesLoop(zone, d, end, dow, result) ==
    IF d = NaN \/ end = NaN \/ ~(d <= end) THEN result
    ELSE generateDatesLoop(zone, NextDay(d), end, dow,
             IF GetDay(zone, d) = dow THEN Append(result, ToISODate(d))
             ELSE result)

\* generateDates(startDate, endDate, dayOfWeek) in a browser of time zone zone
generateDates(zone, start, end, dow) ==
    generateDatesLoop(zone, ParseDate(start), ParseDate(end), dow, <<>>)

\* the values startDate and endDate take: the defaults and the user's inputs
DateValues ==
    DateInputs \cup {ToISODate(t) : t \in Nows}
               \cup {ToISODate(t + 28 * 24) : t \in Nows}

\* generateDates tabulated over the values the model calls it with
GeneratedDates ==
    [zone \in TZOffsets, start \in DateValues, end \in DateValues,
     dow \in WeekdayInputs |-> generateDates(zone, start, end, dow)]

(***************************************************************************)
(* part_004: generateMonthDates and calendarDates.                          *)
(***************************************************************************)
\* the inner loop: one string for each day of the month
MonthDates(zone, year, month) ==
    [day \in 1 .. DaysInMonth(year, month) |->
        ToISODate(LocalMidnight(zone, year, month, day))]

\* generateMonthDates(startMonth, monthCount) in a browser of time zone zone;
\* startMonth is given by its local year and month (its day is 1)
RECURSIVE generateMonthDates(_, _, _, _)
generateMonthDates(zone, year, month, count) ==
    IF count = 0 THEN <<>>
    ELSE MonthDates(zone, year, month) \o
         (IF month = 12 THEN generateMonthDates(zone, year + 1, 1, count - 1)
          ELSE generateMonthDates(zone, year, month + 1, count - 1))

\* today = new Date(); today.setDate(1); generateMonthDates(today, monthCount),
\* tabulated over the environments and the two month counts
CalendarGrids ==
    [zone \in TZOffsets, t \in Nows, count \in {3, 6} |->
        LET today == LocalDate(zone, t)
        IN  generateMonthDates(zone, today[1], today[2], count)]

CalendarDatesOf(count) == CalendarGrids[tz, now, count]

\* const d = new Date(date); `${d.getFullYear()}-${d.getMonth() + 1}`: the
\* date string parsed as UTC midnight, its year and month read in local time
monthKey(zone, date) ==
    LET d == LocalDate(zone, ParseDate(date)) IN <<d[1], d[2]>>

\* datesByMonth: the grid's dates grouped under their month keys, each group
\* in the order of the grid
datesByMonth(zone, dates) ==
    [key \in {monthKey(zone, dates[i]) : i \in DOMAIN dates} |->
        SelectSeq(dates, LAMBDA date : monthKey(zone, date) = key)]

(***************************************************************************)
(* previewAssignments: the rotation.                                        *)
(***************************************************************************)
\* MemberName with an empty label instead of the placeholder
MemberNameNoPlaceholder(list, memberId) ==
    IF \E i \in DOMAIN list : list[i].id = memberId
    THEN (CHOOSE m \in Range(list) : m.id = memberId).name
    ELSE ""

\* members.find((m) => m.id === memberId)?.name || "unknown"
MemberName(list, memberId) ==
    IF \E i \in DOMAIN list : list[i].id = memberId
    THEN LET i == CHOOSE k \in DOMAIN list :
                      /\ list[k].id = memberId
                      /\ \A j \in 1 .. k - 1 : list[j].id # memberId
         IN  IF list[i].name = "" THEN Placeholder ELSE list[i].name
    ELSE Placeholder

\* Rotate with the index clamped to the last roster position instead of wrapped
RotateClamped(dates, roster, list) ==
    [p \in DOMAIN dates |->
        LET memberId == roster[IF p <= Len(roster) THEN p ELSE Len(roster)]
        IN  [date |-> dates[p], memberId |-> memberId,
             memberName |-> MemberName(list, memberId)]]

\* Rotate with a 1-based index taken modulo the roster length
RotateOneBased(dates, roster, list) ==
    [p \in DOMAIN dates |->
        LET memberId == roster[(p % Len(roster)) + 1]
        IN  [date |-> dates[p], memberId |-> memberId,
             memberName |-> MemberName(list, memberId)]]

\* Rotate with a loop that stops one date early
RotateSkipLast(dates, roster, list) ==
    [p \in 1 .. (IF Len(dates) > 1 THEN Len(dates) - 1 ELSE Len(dates)) |->
        LET memberId == roster[((p - 1) % Len(roster)) + 1]
        IN  [date |-> dates[p], memberId |-> memberId,
             memberName |-> MemberName(list, memberId)]]

\* dates.forEach((date, index) => result.push({...})): index is 0-based
Rotate(dates, roster, list) ==
    [p \in DOMAIN dates |->
        LET memberIndex == (p - 1) % Len(roster)
            memberId    == roster[memberIndex + 1]
        IN  [date |-> dates[p], memberId |-> memberId,
             memberName |-> MemberName(list, memberId)]]

\* SortedSelection with the sort left out
UnsortedSelection(selected) == selected

\* part_004 line 161: Array.from(selectedDates).sort()
SortedSelection(selected) == SortStrings(selected)

\* previewAssignmentsCalendar without the guard on an empty roster: the id read
\* from the empty roster is undefined
previewAssignmentsCalendarNoRosterGuard(typeId, selected, roster, list) ==
    IF typeId = "" \/ Len(selected) = 0 THEN <<>>
    ELSE IF Len(roster) = 0
    THEN [p \in DOMAIN selected |->
             [date |-> SortedSelection(selected)[p], memberId |-> "undefined",
              memberName |-> Placeholder]]
    ELSE Rotate(SortedSelection(selected), roster, list)

\* part_004 lines 156-178
previewAssignmentsCalendar(typeId, selected, roster, list) ==
    IF typeId = "" \/ Len(roster) = 0 \/ Len(selected) = 0 THEN <<>>
    ELSE Rotate(SortedSelection(selected), roster, list)

\* previewAssignmentsWeekday that stops when every roster member has one date
previewAssignmentsWeekdayNoWrap(typeId, start, end, dow, roster, list) ==
    IF typeId = "" \/ Len(roster) = 0 THEN <<>>
    ELSE LET dates == GeneratedDates[tz, start, end, dow]
         IN  Rotate(SubSeq(dates, 1, IF Len(dates) < Len(roster) THEN Len(dates)
                                     ELSE Len(roster)), roster, list)

\* part_005 lines 132-152
previewAssignmentsWeekday(typeId, start, end, dow, roster, list) ==
    IF typeId = "" \/ Len(roster) = 0 THEN <<>>
    ELSE Rotate(GeneratedDates[tz, start, end, dow], roster, list)

(***************************************************************************)
(* The page as a state machine.                                             *)
(***************************************************************************)
\* what the callback of useMemo returns on the current state
CurrentRotation ==
    IF variant = "calendar"
    THEN previewAssignmentsCalendar(serviceTypeId, selectedDates,
                                    selectedMemberIds, members)
    ELSE previewAssignmentsWeekday(serviceTypeId, startDate, endDate,
                                   dayOfWeek, selectedMemberIds, members)

\* the callback of useMemo, run on the state the page is rendered with
Recompute ==
    previewAssignments' =
        IF variant' = "calendar"
        THEN previewAssignmentsCalendar(serviceTypeId', selectedDates',
                                        selectedMemberIds', members')
        ELSE previewAssignmentsWeekday(serviceTypeId', startDate', endDate',
                                       dayOfWeek', selectedMemberIds', members')

\* MemoDeps without the roster
MemoDepsNoRoster ==
    IF variant = "calendar"
    THEN <<serviceTypeId, selectedDates, members>>
    ELSE <<serviceTypeId, startDate, endDate, dayOfWeek, members>>

\* the dependency list of useMemo: part_004 line 178, part_005 line 152
MemoDeps ==
    IF variant = "calendar"
    THEN <<serviceTypeId, selectedDates, selectedMemberIds, members>>
    ELSE <<serviceTypeId, startDate, endDate, dayOfWeek, selectedMemberIds,
           members>>

\* the render that follows every state change: useMemo runs its callback
\* when a dependency has changed and returns the memoised list otherwise
Render ==
    IF MemoDeps' = MemoDeps THEN previewAssignments' = previewAssignments
    ELSE Recompute

\* nothing sent, nothing persisted, nothing counted
NoCommit ==
    /\ requests = <<>>
    /\ store = <<>>
    /\ otherCommits = <<>>
    /\ attempt = <<>>
    /\ thrown = <<>>
    /\ confirms = 0
    /\ calls = 0
    /\ navigations = 0

\* the leave service is not used: no row, no call
NoLeave ==
    /\ leave_requests = <<>>
    /\ leave_quotas = {}
    /\ leaveCalls = <<>>
    /\ leaveThrown = ""
    /\ leaveReturned = <<>>

\* no search parameter
NoSearch == [name \in {} |-> <<>>]

\* a response that is not there yet
Awaited == [kind |-> "awaited", pathname |-> <<>>, search |-> NoSearch]

\* no request has been made
NoTraffic ==
    /\ req = [pathname |-> <<>>, search |-> NoSearch, session |-> FALSE]
    /\ response = Awaited
    /\ hops = 0

Traffic == <<req, response, hops>>

\* the state of the application outside the batch assignment pages
Elsewhere ==
    <<leave_requests, leave_quotas, leaveCalls, leaveThrown, leaveReturned,
      Traffic>>

\* the state after construction: the first render, loadData not yet settled
InitPage ==
    /\ variant \in {"calendar", "weekday"}
    /\ tz \in TZOffsets
    /\ now \in Nows
    /\ phase = "loading"
    /\ orgId = ""
    /\ serviceTypes = <<>>
    /\ members = <<>>
    /\ error = ""
    /\ submitting = FALSE
    /\ pending = FALSE
    /\ NoCommit
    /\ NoLeave
    /\ NoTraffic
    /\ serviceTypeId = ""
    /\ monthCount = 3
    /\ calendarDates = IF variant = "calendar" THEN CalendarDatesOf(3) ELSE <<>>
    /\ selectedDates = <<>>
    /\ startDate = IF variant = "weekday" THEN ToISODate(now) ELSE <<>>
    /\ endDate = IF variant = "weekday" THEN ToISODate(now + 28 * 24) ELSE <<>>
    /\ dayOfWeek = 0
    /\ showPreview = FALSE
    /\ selectedMemberIds = <<>>
    /\ previewAssignments = <<>>
    /\ toggledOdd = {}
    /\ checkRank = [m \in MemberIds |-> 0]

Environment == <<variant, tz, now>>

Loaded == <<orgId, serviceTypes, members>>

CalendarForm == <<monthCount, calendarDates, selectedDates, toggledOdd>>

WeekdayForm == <<startDate, endDate, dayOfWeek, showPreview>>

RosterForm == <<selectedMemberIds, checkRank>>

\* the calls, the table and the counts, which Spec leaves alone
Ledger == <<requests, store, otherCommits, attempt, thrown, confirms, calls,
            navigations>>

Commit == <<error, submitting, pending, Ledger>>

\* loadData, both fetches succeeding
loadDataOk ==
    /\ phase = "loading"
    /\ \E typesData \in TypeLists, membersData \in MemberLists :
          /\ serviceTypes' = typesData
          /\ members' = membersData
          /\ serviceTypeId' = IF Len(typesData) > 0 THEN typesData[1] ELSE ""
    /\ orgId' = ProfileOrgId
    /\ error' = ""
    /\ phase' = "ready"
    /\ UNCHANGED <<Environment, Elsewhere, CalendarForm, WeekdayForm, RosterForm,
                   submitting, pending, Ledger>>
    /\ Render

\* loadData, getMyProfile throwing (orgId stays "") or a fetch throwing
\* (setOrgId has run)
loadDataFails ==
    /\ phase = "loading"
    /\ orgId' \in {"", ProfileOrgId}
    /\ error' = "load failed"
    /\ phase' = "ready"
    /\ UNCHANGED <<Environment, Elsewhere, serviceTypes, members, serviceTypeId,
                   CalendarForm, WeekdayForm, RosterForm, submitting, pending,
                   Ledger>>
    /\ Render

\* the service type select
setServiceTypeId ==
    /\ phase = "ready"
    /\ \E t \in Range(serviceTypes) : serviceTypeId' = t
    /\ UNCHANGED <<Environment, Elsewhere, phase, Loaded, CalendarForm, WeekdayForm,
                   RosterForm, Commit>>
    /\ Render

\* the month count select: 3 or 6 months
setMonthCount ==
    /\ phase = "ready"
    /\ variant = "calendar"
    /\ \E n \in {3, 6} :
          /\ monthCount' = n
          /\ calendarDates' = CalendarDatesOf(n)
    /\ UNCHANGED <<Environment, Elsewhere, phase, Loaded, serviceTypeId, selectedDates,
                   toggledOdd, WeekdayForm, RosterForm, Commit>>
    /\ Render

\* toggleDate that only ever adds the date
toggleDateAddOnly(date) ==
    /\ selectedDates' = IF Includes(selectedDates, date) THEN selectedDates
                        ELSE Append(selectedDates, date)

\* part_004 lines 116-124, on a click on a cell of the grid
toggleDate(date) ==
    /\ selectedDates' = IF Includes(selectedDates, date)
                        THEN FilterOut(selectedDates, date)
                        ELSE Append(selectedDates, date)

ToggleDate ==
    /\ phase = "ready"
    /\ variant = "calendar"
    /\ \E cell \in PickCells \cap DOMAIN calendarDates :
          /\ toggleDate(calendarDates[cell])
          /\ toggledOdd' = IF calendarDates[cell] \in toggledOdd
                           THEN toggledOdd \ {calendarDates[cell]}
                           ELSE toggledOdd \cup {calendarDates[cell]}
    /\ UNCHANGED <<Environment, Elsewhere, phase, Loaded, serviceTypeId, monthCount,
                   calendarDates, WeekdayForm, RosterForm, Commit>>
    /\ Render

\* toggleMember that keeps the roster in the order of the member list
toggleMemberNameOrder(memberId) ==
    /\ selectedMemberIds' =
           LET ids == [i \in DOMAIN members |-> members[i].id]
           IN  SelectSeq(ids, LAMBDA id :
                   IF id = memberId THEN ~Includes(selectedMemberIds, id)
                   ELSE Includes(selectedMemberIds, id))

\* toggleMember of both variants, on a click on a member's checkbox
toggleMember(memberId) ==
    /\ selectedMemberIds' = IF Includes(selectedMemberIds, memberId)
                            THEN FilterOut(selectedMemberIds, memberId)
                            ELSE Append(selectedMemberIds, memberId)

\* history: a check gives the member the last rank, an uncheck closes the gap
CheckRankAfter(memberId) ==
    IF checkRank[memberId] = 0
    THEN [checkRank EXCEPT
             ![memberId] = 1 + Cardinality({m \in MemberIds : checkRank[m] > 0})]
    ELSE [m \in MemberIds |->
             IF m = memberId THEN 0
             ELSE IF checkRank[m] > checkRank[memberId] THEN checkRank[m] - 1
             ELSE checkRank[m]]

ToggleMember ==
    /\ phase = "ready"
    /\ \E i \in DOMAIN members :
          /\ toggleMember(members[i].id)
          /\ checkRank' = CheckRankAfter(members[i].id)
    /\ UNCHANGED <<Environment, Elsewhere, phase, Loaded, serviceTypeId, CalendarForm,
                   WeekdayForm, Commit>>
    /\ Render

\* the two date inputs and the weekday select
setStartDate ==
    /\ phase = "ready"
    /\ variant = "weekday"
    /\ \E value \in DateInputs : startDate' = value
    /\ UNCHANGED <<Environment, Elsewhere, phase, Loaded, serviceTypeId, CalendarForm,
                   endDate, dayOfWeek, showPreview, RosterForm, Commit>>
    /\ Render

setEndDate ==
    /\ phase = "ready"
    /\ variant = "weekday"
    /\ \E value \in DateInputs : endDate' = value
    /\ UNCHANGED <<Environment, Elsewhere, phase, Loaded, serviceTypeId, CalendarForm,
                   startDate, dayOfWeek, showPreview, RosterForm, Commit>>
    /\ Render

setDayOfWeek ==
    /\ phase = "ready"
    /\ variant = "weekday"
    /\ \E value \in WeekdayInputs : dayOfWeek' = value
    /\ UNCHANGED <<Environment, Elsewhere, phase, Loaded, serviceTypeId, CalendarForm,
                   startDate, endDate, showPreview, RosterForm, Commit>>
    /\ Render

\* the generate-preview button, disabled while the roster is empty
ShowPreview ==
    /\ phase = "ready"
    /\ variant = "weekday"
    /\ Len(selectedMemberIds) # 0
    /\ showPreview' = TRUE
    /\ UNCHANGED <<Environment, Elsewhere, phase, Loaded, serviceTypeId, CalendarForm,
                   startDate, endDate, dayOfWeek, RosterForm, Commit>>
    /\ Render

\* the preview panel, which holds the confirm and the reconfigure button
PreviewShown ==
    /\ Len(previewAssignments) > 0
    /\ variant = "weekday" => showPreview

\* a reconfigure button that also empties the roster
ReconfigureClearsRoster ==
    /\ phase = "ready"
    /\ variant = "weekday"
    /\ PreviewShown
    /\ ~submitting
    /\ showPreview' = FALSE
    /\ selectedMemberIds' = <<>>
    /\ checkRank' = [m \in MemberIds |-> 0]
    /\ UNCHANGED <<Environment, Elsewhere, phase, Loaded, serviceTypeId, CalendarForm,
                   startDate, endDate, dayOfWeek, Commit>>
    /\ Render

\* the reconfigure button of the preview panel, disabled while submitting
Reconfigure ==
    /\ phase = "ready"
    /\ variant = "weekday"
    /\ PreviewShown
    /\ ~submitting
    /\ showPreview' = FALSE
    /\ UNCHANGED <<Environment, Elsewhere, phase, Loaded, serviceTypeId, CalendarForm,
                   startDate, endDate, dayOfWeek, RosterForm, Commit>>
    /\ Render

\* the confirm button without its disabled attribute
ConfirmNeverDisabled == FALSE

\* the confirm button: disabled={submitting}
ConfirmDisabled == submitting

\* the button can be clicked while the page is on screen, which it still is
\* when router.push has been called
ConfirmButton ==
    /\ phase \in {"ready", "left"}
    /\ ~ConfirmDisabled

\* ValidationError without the check of the date set
ValidationErrorNoDates ==
    IF serviceTypeId = "" \/ Len(selectedMemberIds) = 0
    THEN "choose a service type and at least one member"
    ELSE ""

\* the two checks handleSubmit makes before its try block: the message of
\* the first that fails, "" when both pass
ValidationError ==
    IF serviceTypeId = "" \/ Len(selectedMemberIds) = 0
    THEN "choose a service type and at least one member"
    ELSE IF (variant = "calendar" /\ Len(selectedDates) = 0)
            \/ (variant = "weekday" /\ Len(previewAssignments) = 0)
    THEN "no dates"
    ELSE ""

\* what handleSubmit does to the page's state up to its await
handleSubmitPage ==
    /\ error' = ValidationError
    /\ submitting' = (ValidationError = "")
    /\ pending' = (ValidationError = "")
    /\ UNCHANGED <<Environment, Elsewhere, phase, Loaded, serviceTypeId, CalendarForm,
                   WeekdayForm, RosterForm>>
    /\ Render

\* ErrorText that shows the fixed text whatever the store says
ErrorTextFixed(message) == "create failed"

\* err.message || "create failed"
ErrorText(message) == IF message = "" THEN "create failed" ELSE message

\* resolvePage followed by a finally block that resets submitting
resolvePageResets ==
    /\ pending' = FALSE
    /\ phase' = "left"
    /\ submitting' = FALSE
    /\ UNCHANGED <<Environment, Elsewhere, Loaded, serviceTypeId, CalendarForm, WeekdayForm,
                   RosterForm, error>>
    /\ Render

\* the rest of the try block once the call has resolved: router.push
resolvePage ==
    /\ pending' = FALSE
    /\ phase' = "left"
    /\ UNCHANGED <<Environment, Elsewhere, Loaded, serviceTypeId, CalendarForm, WeekdayForm,
                   RosterForm, error, submitting>>
    /\ Render

\* the catch block once the call has thrown an error with this message
catchPage(message) ==
    /\ pending' = FALSE
    /\ error' = ErrorText(message)
    /\ submitting' = FALSE
    /\ UNCHANGED <<Environment, Elsewhere, phase, Loaded, serviceTypeId, CalendarForm,
                   WeekdayForm, RosterForm>>
    /\ Render

\* handleSubmit up to its await, on the confirm button of the preview panel
handleSubmit ==
    /\ ConfirmButton
    /\ PreviewShown
    /\ handleSubmitPage
    /\ UNCHANGED Ledger

\* createBatchServiceAssignments resolves: router.push("/services")
SubmitOk ==
    /\ phase = "ready"
    /\ pending
    /\ resolvePage
    /\ UNCHANGED Ledger

\* createBatchServiceAssignments throws the store's error
SubmitFails ==
    /\ phase = "ready"
    /\ pending
    /\ \E message \in StoreErrors : catchPage(message)
    /\ UNCHANGED Ledger

Next ==
    \/ loadDataOk
    \/ loadDataFails
    \/ setServiceTypeId
    \/ setMonthCount
    \/ ToggleDate
    \/ ToggleMember
    \/ setStartDate
    \/ setEndDate
    \/ setDayOfWeek
    \/ ShowPreview
    \/ Reconfigure
    \/ handleSubmit
    \/ SubmitOk
    \/ SubmitFails

Init == InitPage

Spec == Init /\ [][Next]_vars

(***************************************************************************)
(* The rotation as a function of its inputs: every input is drawn, then one *)
(* evaluation of the memoised computation takes place.                      *)
(***************************************************************************)
\* the dates given to the calendar variant's rotation as a bare input
RotationDates == {<<2025, 3, 5>>, <<2025, 3, 2>>, <<2024, 12, 31>>}

InitRotation ==
    /\ variant \in {"calendar", "weekday"}
    /\ tz \in TZOffsets
    /\ now \in Nows
    /\ phase = "input"
    /\ orgId = ProfileOrgId
    /\ serviceTypeId \in {"", "t1"}
    /\ serviceTypes = IF serviceTypeId = "" THEN <<>> ELSE <<"t1", "t2">>
    /\ members \in MemberLists
    /\ error = ""
    /\ submitting = FALSE
    /\ pending = FALSE
    /\ NoCommit
    /\ NoLeave
    /\ NoTraffic
    /\ monthCount = 3
    /\ calendarDates = <<>>
    /\ IF variant = "calendar"
       THEN /\ selectedDates \in
                   DistinctSeqsOf(RotationDates, Cardinality(RotationDates))
            /\ startDate = <<>>
            /\ endDate = <<>>
            /\ dayOfWeek = 0
       ELSE /\ selectedDates = <<>>
            /\ startDate \in DateValues
            /\ endDate \in DateValues
            /\ dayOfWeek \in WeekdayInputs
    /\ showPreview = FALSE
    /\ selectedMemberIds \in DistinctSeqsOf(MemberIds, MaxRoster)
    /\ previewAssignments = <<>>
    /\ toggledOdd = Range(selectedDates)
    /\ checkRank = [m \in MemberIds |-> 0]

\* the first render: useMemo runs its callback
Evaluate ==
    /\ phase = "input"
    /\ phase' = "evaluated"
    /\ UNCHANGED <<Environment, Elsewhere, Loaded, serviceTypeId, CalendarForm, WeekdayForm,
                   RosterForm, Commit>>
    /\ Recompute

NextRotation == Evaluate

SpecRotation == InitRotation /\ [][NextRotation]_vars

(***************************************************************************)
(* The commit of a page whose form is given.  handleSubmit is applied in    *)
(* every form, also in those whose empty preview keeps the panel with the   *)
(* confirm button off the screen: this is what exercises its validation.    *)
(***************************************************************************)
\* assignmentsOf with the rows in the reverse of the preview's order
assignmentsOfReversed(org, typeId, preview) ==
    [p \in DOMAIN preview |->
        [org_id |-> org, service_type_id |-> typeId,
         member_id |-> preview[Len(preview) + 1 - p].memberId,
         service_date |-> preview[Len(preview) + 1 - p].date,
         status |-> "scheduled"]]

\* previewAssignments.map((p) => ({org_id: orgId, ...}))
assignmentsOf(org, typeId, preview) ==
    [p \in DOMAIN preview |->
        [org_id |-> org, service_type_id |-> typeId,
         member_id |-> preview[p].memberId, service_date |-> preview[p].date,
         status |-> "scheduled"]]

\* const assignments of handleSubmit
assignments == assignmentsOf(orgId, serviceTypeId, previewAssignments)

\* createBatchServiceAssignments that leaves out the rows the table holds
createBatchServiceAssignmentsSkipExisting(rows) ==
    <<SelectSeq(rows, LAMBDA r : ~Includes(store, r))>>

\* createBatchServiceAssignments that inserts the rows one call each
createBatchServiceAssignmentsPerRow(rows) == [i \in DOMAIN rows |-> <<rows[i]>>]

\* the insert requests createBatchServiceAssignments(rows) makes: one, with
\* the whole list
createBatchServiceAssignments(rows) == <<rows>>

\* whether the table takes the rows of an insert that does not fail for
\* another reason: it has no constraint over the rows it holds
Accepts(table, rows) == TRUE

\* a catch block that calls createBatchServiceAssignments again
catchSendsAgain(rows) == <<rows>>

\* the requests the catch block makes for the rows that failed: none
catchSends(rows) == <<>>

\* the date sets and the rosters of the forms the commit is followed from
CommitSelections == {<<>>, <<<<2025, 3, 5>>>>, <<<<2025, 3, 5>>, <<2025, 3, 2>>>>}

CommitRanges == {<<<<2025, 1, 1>>, <<2025, 1, 31>>>>,
                 <<<<2025, 1, 31>>, <<2025, 1, 1>>>>}

CommitRosters == {<<>>, <<"m3", "m1">>}

\* the commit does not read the clock: one time zone, UTC
CommitZones == {0}

\* the batches of other page instances: other administrators' pages with the
\* calendar form, or earlier runs of this administrator
OtherBatches ==
    {assignmentsOf(ProfileOrgId, "t1",
                   previewAssignmentsCalendar("t1", selected, roster,
                                              LoadedMembers)) :
        selected \in CommitSelections \ {<<>>},
        roster \in CommitRosters \ {<<>>}}

\* a page that has loaded and whose form the user has filled in
InitCommit ==
    /\ variant \in {"calendar", "weekday"}
    /\ tz \in CommitZones
    /\ now \in Nows
    /\ phase = "ready"
    /\ orgId = ProfileOrgId
    /\ serviceTypes \in TypeLists
    /\ serviceTypeId \in IF serviceTypes = <<>> THEN {""} ELSE Range(serviceTypes)
    /\ members = LoadedMembers
    /\ error = ""
    /\ submitting = FALSE
    /\ pending = FALSE
    /\ NoCommit
    /\ NoLeave
    /\ NoTraffic
    /\ monthCount = 3
    /\ calendarDates = IF variant = "calendar" THEN CalendarDatesOf(3) ELSE <<>>
    /\ IF variant = "calendar"
       THEN /\ selectedDates \in CommitSelections
            /\ startDate = <<>>
            /\ endDate = <<>>
            /\ dayOfWeek = 0
            /\ showPreview = FALSE
       ELSE /\ selectedDates = <<>>
            /\ \E range \in CommitRanges :
                  /\ startDate = range[1]
                  /\ endDate = range[2]
            /\ dayOfWeek = 3
            /\ showPreview = TRUE
    /\ selectedMemberIds \in CommitRosters
    /\ previewAssignments = CurrentRotation
    /\ toggledOdd = Range(selectedDates)
    /\ checkRank = [m \in MemberIds |->
                       IF Includes(selectedMemberIds, m)
                       THEN CHOOSE i \in DOMAIN selectedMemberIds :
                                selectedMemberIds[i] = m
                       ELSE 0]

\* a click on the confirm button: handleSubmit up to its await, with the
\* call it makes
Confirm ==
    /\ ConfirmButton
    /\ confirms < MaxConfirms
    /\ handleSubmitPage
    /\ confirms' = confirms + 1
    /\ IF ValidationError = ""
       THEN /\ attempt' = assignments
            /\ requests' = requests \o createBatchServiceAssignments(assignments)
            /\ calls' = calls + Len(createBatchServiceAssignments(assignments))
       ELSE UNCHANGED <<attempt, requests, calls>>
    /\ UNCHANGED <<store, otherCommits, thrown, navigations>>

\* the store takes the insert: every row of the request is in the table, the
\* call resolves and handleSubmit goes on to router.push
InsertOk ==
    /\ requests # <<>>
    /\ Accepts(store, Head(requests))
    /\ store' = store \o Head(requests)
    /\ requests' = Tail(requests)
    /\ navigations' = navigations + 1
    /\ thrown' = <<>>
    /\ resolvePage
    /\ UNCHANGED <<otherCommits, attempt, confirms, calls>>

\* the store refuses the insert: no row of the request is in the table, the
\* call throws and handleSubmit goes on in its catch block
InsertFails ==
    /\ requests # <<>>
    /\ \E message \in StoreErrors :
          /\ catchPage(message)
          /\ thrown' = <<message>>
    /\ requests' = Tail(requests) \o catchSends(Head(requests))
    /\ calls' = calls + Len(catchSends(Head(requests)))
    /\ attempt' = <<>>
    /\ UNCHANGED <<store, otherCommits, confirms, navigations>>

\* the insert of another page instance is taken by the store
OtherCommit ==
    /\ Len(otherCommits) < MaxOtherCommits
    /\ \E batch \in OtherBatches :
          /\ Accepts(store, batch)
          /\ store' = store \o batch
          /\ otherCommits' = Append(otherCommits, batch)
    /\ UNCHANGED <<Environment, Elsewhere, phase, Loaded, serviceTypeId, CalendarForm,
                   WeekdayForm, RosterForm, error, submitting, pending,
                   previewAssignments, requests, attempt, thrown, confirms,
                   calls, navigations>>

NextCommit ==
    \/ Confirm
    \/ InsertOk
    \/ InsertFails
    \/ OtherCommit
    \/ ToggleMember

SpecCommit == InitCommit /\ [][NextCommit]_vars

(***************************************************************************)
(* part_015: the leave service.                                             *)
(***************************************************************************)
\* the value of a null column
Null == "NULL"

\* the users of the organisation
LeaveUsers == {"u1", "u2"}

\* the forms createLeaveRequest is called with: a request of u1 in 2025, one
\* of u1 that starts in 2024 and one of u2 for personal leave
LeaveForms ==
    {[org_id |-> "org1", requester_id |-> "u1", leave_type |-> "annual",
      start_date |-> <<2025, 6, 2>>, days |-> 3],
     [org_id |-> "org1", requester_id |-> "u1", leave_type |-> "annual",
      start_date |-> <<2024, 12, 30>>, days |-> 2],
     [org_id |-> "org1", requester_id |-> "u2", leave_type |-> "personal",
      start_date |-> <<2025, 1, 1>>, days |-> 1]}

\* the notes a reviewer gives: approveLeaveRequest is also called without one
ApproveNotes == {"", "ok"}
RejectNotes == {"not now"}

\* the value new Date().toISOString() takes at a review
ReviewTimes == {"2025-03-01T09:00:00.000Z"}

\* the error the store answers an insert, update or query with ("" = none)
UpdateErrors == {"", "connection lost"}

\* the contents of leave_quotas: no row, or the row of u1 for 2025
QuotaTables ==
    {{},
     {[org_id |-> "org1", user_id |-> "u1", year |-> 2025, annual_days |-> 2,
       sabbatical_days |-> 0, sick_days |-> 5, special_days |-> 1]}}

\* the years a balance is asked for
LeaveYears == {2024, 2025}

LEAVE_TYPES == <<"annual", "personal", "sabbatical", "sick", "special">>

\* the row createLeaveRequest inserts
NewRequest(form) ==
    [org_id |-> form.org_id, requester_id |-> form.requester_id,
     leave_type |-> form.leave_type, start_date |-> form.start_date,
     days |-> form.days, status |-> "pending", reviewer_id |-> Null,
     reviewed_at |-> Null, review_note |-> Null]

\* the messages of the thrown errors
QueryFailed == "query failed"
AlreadyHandled == "already handled, cannot be reviewed again"
OwnRequest == "cannot review one's own request"
NotPending == "only a pending request can be cancelled"
NotOwnRequest == "only one's own request can be cancelled"
ApproveFailed == "approve failed"
RejectFailed == "reject failed"
CancelFailed == "cancel failed"

\* ReviewCheck without the test of the status
ReviewCheckAnyStatus(table, id, reviewerId) ==
    IF id \notin DOMAIN table THEN QueryFailed
    ELSE IF table[id].requester_id = reviewerId THEN OwnRequest
    ELSE ""

\* ReviewCheck without the test of the reviewer
ReviewCheckAnyReviewer(table, id, reviewerId) ==
    IF id \notin DOMAIN table THEN QueryFailed
    ELSE IF table[id].status # "pending" THEN AlreadyHandled
    ELSE ""

\* the select and the checks of approveLeaveRequest and rejectLeaveRequest:
\* the message of the error they throw, "" if they pass; select(...).single()
\* reports an error when no row has the id
ReviewCheck(table, id, reviewerId) ==
    IF id \notin DOMAIN table THEN QueryFailed
    ELSE IF table[id].status # "pending" THEN AlreadyHandled
    ELSE IF table[id].requester_id = reviewerId THEN OwnRequest
    ELSE ""

\* CancelCheck without the test of the requester
CancelCheckAnyUser(table, id, requesterId) ==
    IF id \notin DOMAIN table THEN QueryFailed
    ELSE IF table[id].status # "pending" THEN NotPending
    ELSE ""

\* the select and the checks of cancelLeaveRequest
CancelCheck(table, id, requesterId) ==
    IF id \notin DOMAIN table THEN QueryFailed
    ELSE IF table[id].status # "pending" THEN NotPending
    ELSE IF table[id].requester_id # requesterId THEN NotOwnRequest
    ELSE ""

\* the row after the update of approveLeaveRequest; review_note: note || null
approveUpdate(row, reviewerId, note, at) ==
    [row EXCEPT !.status = "approved", !.reviewer_id = reviewerId,
                !.reviewed_at = at,
                !.review_note = IF note = "" THEN Null ELSE note]

\* the row after the update of rejectLeaveRequest
rejectUpdate(row, reviewerId, note, at) ==
    [row EXCEPT !.status = "rejected", !.reviewer_id = reviewerId,
                !.reviewed_at = at, !.review_note = note]

\* cancelUpdate that also records who cancelled
cancelUpdateSigned(row, requesterId) ==
    [row EXCEPT !.status = "cancelled", !.reviewer_id = requesterId]

\* the row after the update of cancelLeaveRequest
cancelUpdate(row, requesterId) == [row EXCEPT !.status = "cancelled"]

\* the batch assignment pages, of which none is open
BatchPages ==
    <<Environment, phase, Loaded, serviceTypeId, CalendarForm, WeekdayForm,
      RosterForm, previewAssignments, Commit>>

NoPage ==
    /\ variant = "none"
    /\ tz = 0
    /\ now = 0
    /\ phase = "closed"
    /\ orgId = ""
    /\ serviceTypes = <<>>
    /\ members = <<>>
    /\ error = ""
    /\ submitting = FALSE
    /\ pending = FALSE
    /\ NoCommit
    /\ serviceTypeId = ""
    /\ monthCount = 3
    /\ calendarDates = <<>>
    /\ selectedDates = <<>>
    /\ startDate = <<>>
    /\ endDate = <<>>
    /\ dayOfWeek = 0
    /\ showPreview = FALSE
    /\ selectedMemberIds = <<>>
    /\ previewAssignments = <<>>
    /\ toggledOdd = {}
    /\ checkRank = [m \in MemberIds |-> 0]

\* a call that throws: nothing is written
Throws(message) ==
    /\ leaveThrown' = message
    /\ leaveReturned' = <<>>
    /\ UNCHANGED <<BatchPages, Traffic, leave_requests, leave_quotas, leaveCalls>>

\* a call whose update of row id to row is answered with failure ("" = none)
Updates(id, row, failure, message) ==
    IF failure # "" THEN Throws(message)
    ELSE /\ leave_requests' = [leave_requests EXCEPT ![id] = row]
         /\ leaveThrown' = ""
         /\ leaveReturned' = <<>>
         /\ UNCHANGED <<BatchPages, Traffic, leave_quotas, leaveCalls>>

\* createLeaveRequest(orgId, requesterId, data): returns the id of the new row
createLeaveRequest(form) ==
    /\ Len(leave_requests) < MaxLeaveRequests
    /\ \E failure \in UpdateErrors :
          IF failure # "" THEN Throws("submit failed")
          ELSE /\ leave_requests' = Append(leave_requests, NewRequest(form))
               /\ leaveThrown' = ""
               /\ leaveReturned' = <<Len(leave_requests) + 1>>
               /\ UNCHANGED <<BatchPages, Traffic, leave_quotas, leaveCalls>>

\* approveLeaveRequest(id, reviewerId, note), from its call to its return
approveLeaveRequest(id, reviewerId, note) ==
    LET message == ReviewCheck(leave_requests, id, reviewerId)
    IN  IF message # "" THEN Throws(message)
        ELSE \E at \in ReviewTimes, failure \in UpdateErrors :
                Updates(id, approveUpdate(leave_requests[id], reviewerId,
                                          note, at),
                        failure, ApproveFailed)

\* rejectLeaveRequest(id, reviewerId, note), from its call to its return
rejectLeaveRequest(id, reviewerId, note) ==
    LET message == ReviewCheck(leave_requests, id, reviewerId)
    IN  IF message # "" THEN Throws(message)
        ELSE \E at \in ReviewTimes, failure \in UpdateErrors :
                Updates(id, rejectUpdate(leave_requests[id], reviewerId,
                                         note, at),
                        failure, RejectFailed)

\* cancelLeaveRequest(id, requesterId), from its call to its return
cancelLeaveRequest(id, requesterId) ==
    LET message == CancelCheck(leave_requests, id, requesterId)
    IN  IF message # "" THEN Throws(message)
        ELSE \E failure \in UpdateErrors :
                Updates(id, cancelUpdate(leave_requests[id], requesterId),
                        failure, CancelFailed)

\* usedMap after the forEach over the selected rows
RECURSIVE usedMap(_)
usedMap(rows) ==
    IF rows = <<>> THEN [t \in {} |-> 0]
    ELSE LET before == usedMap(SubSeq(rows, 1, Len(rows) - 1))
             r == rows[Len(rows)]
         IN  [t \in DOMAIN before \cup {r.leave_type} |->
                 (IF t \in DOMAIN before THEN before[t] ELSE 0)
                 + (IF t = r.leave_type THEN r.days ELSE 0)]

\* `${year}-01-01` <= start_date <= `${year}-12-31`
StartsIn(year, row) ==
    /\ ~IsoLess(row.start_date, <<year, 1, 1>>)
    /\ ~IsoLess(<<year, 12, 31>>, row.start_date)

\* the second query with the pending requests counted as well
UsedRowsWithPending(table, org, userId, year) ==
    SelectSeq(table, LAMBDA row : /\ row.org_id = org
                                  /\ row.requester_id = userId
                                  /\ row.status \in {"approved", "pending"}
                                  /\ StartsIn(year, row))

\* the second query of fetchLeaveBalance: the approved requests of the user
\* that start in the year
UsedRows(table, org, userId, year) ==
    SelectSeq(table, LAMBDA row : /\ row.org_id = org
                                  /\ row.requester_id = userId
                                  /\ row.status = "approved"
                                  /\ StartsIn(year, row))

\* the first query of fetchLeaveBalance, maybeSingle(): <<>> or <<the row>>
QuotaRow(quotas, org, userId, year) ==
    LET found == {q \in quotas : /\ q.org_id = org
                                 /\ q.user_id = userId
                                 /\ q.year = year}
    IN  IF Cardinality(found) = 1 THEN <<CHOOSE q \in found : TRUE>> ELSE <<>>

\* quotaMap: a quota is <<n>>, the null quota of personal leave is <<>>
quotaMap(quota) ==
    [t \in Range(LEAVE_TYPES) |->
        IF t = "personal" THEN <<>>
        ELSE IF quota = <<>> THEN <<0>>
        ELSE IF t = "annual" THEN <<quota[1].annual_days>>
        ELSE IF t = "sabbatical" THEN <<quota[1].sabbatical_days>>
        ELSE IF t = "sick" THEN <<quota[1].sick_days>>
        ELSE <<quota[1].special_days>>]

\* the list fetchLeaveBalance(orgId, userId, year) returns
LeaveBalance(table, quotas, org, userId, year) ==
    LET used == usedMap(UsedRows(table, org, userId, year))
        q == quotaMap(QuotaRow(quotas, org, userId, year))
    IN  [i \in DOMAIN LEAVE_TYPES |->
            LET t == LEAVE_TYPES[i]
                u == IF t \in DOMAIN used THEN used[t] ELSE 0
            IN  [leave_type |-> t, quota |-> q[t], used |-> u,
                 remaining |-> IF q[t] # <<>> THEN <<q[t][1] - u>> ELSE <<>>]]

\* fetchLeaveBalance(orgId, userId, year), from its call to its return
fetchLeaveBalance(org, userId, year) ==
    \E failure \in UpdateErrors :
        IF failure # "" THEN Throws("balance failed")
        ELSE /\ leaveReturned' =
                    LeaveBalance(leave_requests, leave_quotas, org, userId, year)
             /\ leaveThrown' = ""
             /\ UNCHANGED <<BatchPages, Traffic, leave_requests, leave_quotas,
                            leaveCalls>>

InitLeave ==
    /\ NoPage
    /\ NoTraffic
    /\ leave_requests = <<>>
    /\ leave_quotas \in QuotaTables
    /\ leaveCalls = <<>>
    /\ leaveThrown = ""
    /\ leaveReturned = <<>>

NextLeave ==
    \/ \E form \in LeaveForms : createLeaveRequest(form)
    \/ \E id \in 1 .. MaxLeaveRequests, reviewerId \in LeaveUsers,
          note \in ApproveNotes : approveLeaveRequest(id, reviewerId, note)
    \/ \E id \in 1 .. MaxLeaveRequests, reviewerId \in LeaveUsers,
          note \in RejectNotes : rejectLeaveRequest(id, reviewerId, note)
    \/ \E id \in 1 .. MaxLeaveRequests, requesterId \in LeaveUsers :
          cancelLeaveRequest(id, requesterId)
    \/ \E userId \in LeaveUsers, year \in LeaveYears :
          fetchLeaveBalance(ProfileOrgId, userId, year)

SpecLeave == InitLeave /\ [][NextLeave]_vars

(***************************************************************************)
(* part_015: review and cancel calls whose select and update interleave.    *)
(***************************************************************************)
\* the select and the checks of one call: it throws, or goes on to its update
Selects(op, id, userId, note, message) ==
    IF message # "" THEN Throws(message)
    ELSE /\ leaveCalls' = Append(leaveCalls, [op |-> op, id |-> id,
                                              userId |-> userId,
                                              note |-> note])
         /\ UNCHANGED <<BatchPages, Traffic, leave_requests, leave_quotas,
                        leaveThrown, leaveReturned>>

\* approveLeaveRequest up to its update
approveSelect(id, reviewerId, note) ==
    /\ Len(leaveCalls) < MaxInFlight
    /\ Selects("approve", id, reviewerId, note,
               ReviewCheck(leave_requests, id, reviewerId))

\* rejectLeaveRequest up to its update
rejectSelect(id, reviewerId, note) ==
    /\ Len(leaveCalls) < MaxInFlight
    /\ Selects("reject", id, reviewerId, note,
               ReviewCheck(leave_requests, id, reviewerId))

\* cancelLeaveRequest up to its update
cancelSelect(id, requesterId) ==
    /\ Len(leaveCalls) < MaxInFlight
    /\ Selects("cancel", id, requesterId, "",
               CancelCheck(leave_requests, id, requesterId))

\* the row the update of a call in flight writes, given the row as it is now:
\* update(...).eq("id", id) sets the columns it names and tests nothing
UpdateOf(call, row, at) ==
    IF call.op = "approve" THEN approveUpdate(row, call.userId, call.note, at)
    ELSE IF call.op = "reject"
         THEN rejectUpdate(row, call.userId, call.note, at)
    ELSE cancelUpdate(row, call.userId)

\* the update of the i-th call in flight and its return
callUpdate(i) ==
    /\ i \in DOMAIN leaveCalls
    /\ leaveCalls' = SubSeq(leaveCalls, 1, i - 1)
                         \o SubSeq(leaveCalls, i + 1, Len(leaveCalls))
    /\ leaveReturned' = <<>>
    /\ \E at \in ReviewTimes, failure \in UpdateErrors :
          IF failure # ""
          THEN /\ leaveThrown' = failure
               /\ UNCHANGED leave_requests
          ELSE /\ leaveThrown' = ""
               /\ leave_requests' =
                      [leave_requests EXCEPT
                          ![leaveCalls[i].id] = UpdateOf(leaveCalls[i], @, at)]
    /\ UNCHANGED <<BatchPages, Traffic, leave_quotas>>

\* one pending request, no call in flight
InitLeaveRace ==
    /\ NoPage
    /\ NoTraffic
    /\ \E form \in LeaveForms : leave_requests = <<NewRequest(form)>>
    /\ leave_quotas = {}
    /\ leaveCalls = <<>>
    /\ leaveThrown = ""
    /\ leaveReturned = <<>>

NextLeaveRace ==
    \/ \E id \in 1 .. MaxLeaveRequests, reviewerId \in LeaveUsers,
          note \in ApproveNotes : approveSelect(id, reviewerId, note)
    \/ \E id \in 1 .. MaxLeaveRequests, reviewerId \in LeaveUsers,
          note \in RejectNotes : rejectSelect(id, reviewerId, note)
    \/ \E id \in 1 .. MaxLeaveRequests, requesterId \in LeaveUsers :
          cancelSelect(id, requesterId)
    \/ \E i \in 1 .. MaxInFlight : callUpdate(i)

SpecLeaveRace == InitLeaveRace /\ [][NextLeaveRace]_vars

(***************************************************************************)
(* src/middleware.ts.                                                       *)
(***************************************************************************)
\* how many redirects the browser follows before it gives up
MaxHops == 3
\* the literal paths of the middleware, as sequences of characters
NextPrefix == <<"/", "_", "n", "e", "x", "t">>
FaviconPrefix == <<"/", "f", "a", "v", "i", "c", "o", "n", ".", "i", "c", "o">>
RobotsPrefix == <<"/", "r", "o", "b", "o", "t", "s", ".", "t", "x", "t">>
SitemapPrefix == <<"/", "s", "i", "t", "e", "m", "a", "p", ".", "x", "m", "l">>
AuthPrefix == <<"/", "a", "u", "t", "h">>
LoginPath == <<"/", "l", "o", "g", "i", "n">>
TransactionsPath == <<"/", "t", "r", "a", "n", "s", "a", "c", "t", "i", "o", "n", "s">>

\* the prefixes the matcher of config excludes: _next/static, _next/image and
\* favicon.ico after the leading slash
UnmatchedPrefixes ==
    {<<"/", "_", "n", "e", "x", "t", "/", "s", "t", "a", "t", "i", "c">>,
     <<"/", "_", "n", "e", "x", "t", "/", "i", "m", "a", "g", "e">>,
     FaviconPrefix}

\* the paths that are requested
RequestPaths ==
    {<<"/">>,
     LoginPath,
     LoginPath \o <<"/", "x">>,
     TransactionsPath,
     <<"/", "s", "e", "r", "v", "i", "c", "e", "s">>,
     AuthPrefix \o <<"/", "c", "a", "l", "l", "b", "a", "c", "k">>,
     AuthPrefix \o <<"o", "r", "s">>,
     NextPrefix \o <<"/", "d", "a", "t", "a">>,
     NextPrefix \o <<"/", "s", "t", "a", "t", "i", "c", "/", "a">>,
     FaviconPrefix,
     RobotsPrefix,
     SitemapPrefix}

\* the query strings that are requested: none, a parameter of the page, and
\* a redirectedFrom parameter left from an earlier redirect
RequestSearches ==
    {NoSearch,
     [name \in {"tab"} |-> <<"1">>],
     [name \in {"redirectedFrom"} |-> <<"/">>]}

\* pathname.startsWith(prefix)
startsWith(pathname, prefix) ==
    /\ Len(prefix) <= Len(pathname)
    /\ SubSeq(pathname, 1, Len(prefix)) = prefix

\* whether the matcher of config hands the request to the middleware
Matches(pathname) ==
    \A prefix \in UnmatchedPrefixes : ~startsWith(pathname, prefix)

\* url.searchParams.set(name, value)
searchParamsSet(search, name, value) ==
    [n \in DOMAIN search \cup {name} |->
        IF n = name THEN value ELSE search[n]]

\* NextResponse.next()
PassThrough == [kind |-> "next", pathname |-> <<>>, search |-> NoSearch]

\* NextResponse.redirect(url)
Redirect(pathname, search) ==
    [kind |-> "redirect", pathname |-> pathname, search |-> search]

\* IsLoginPage as a prefix test
IsLoginPagePrefix(pathname) == startsWith(pathname, LoginPath)

\* pathname === "/login"
IsLoginPage(pathname) == pathname = LoginPath

\* HomePath with the login page as target
HomePathLogin == LoginPath

\* where a signed-in visitor of the login page is sent
HomePath == TransactionsPath

\* the response middleware(req) returns
middlewareResponse(request) ==
    IF \/ startsWith(request.pathname, NextPrefix)
       \/ startsWith(request.pathname, FaviconPrefix)
       \/ startsWith(request.pathname, RobotsPrefix)
       \/ startsWith(request.pathname, SitemapPrefix)
    THEN PassThrough
    ELSE IF startsWith(request.pathname, AuthPrefix) THEN PassThrough
    ELSE IF IsLoginPage(request.pathname)
         THEN IF request.session THEN Redirect(HomePath, NoSearch)
              ELSE PassThrough
    ELSE IF ~request.session
         THEN Redirect(LoginPath,
                       searchParamsSet(request.search, "redirectedFrom",
                                       request.pathname))
    ELSE PassThrough

\* no leave call is made while the middleware is followed
LeaveService ==
    <<leave_requests, leave_quotas, leaveCalls, leaveThrown, leaveReturned>>

\* the user opens a URL, signed in or not
navigate ==
    /\ response.kind # "awaited" \/ req.pathname = <<>>
    /\ \E pathname \in RequestPaths, search \in RequestSearches,
          session \in BOOLEAN :
          req' = [pathname |-> pathname, search |-> search,
                  session |-> session]
    /\ response' = Awaited
    /\ hops' = 0
    /\ UNCHANGED <<BatchPages, LeaveService>>

\* the middleware answers a request the matcher hands to it
middleware ==
    /\ req.pathname # <<>>
    /\ response.kind = "awaited"
    /\ Matches(req.pathname)
    /\ response' = middlewareResponse(req)
    /\ UNCHANGED <<BatchPages, LeaveService, req, hops>>

\* a request the matcher excludes is served without the middleware
serveUnmatched ==
    /\ req.pathname # <<>>
    /\ response.kind = "awaited"
    /\ ~Matches(req.pathname)
    /\ response' = PassThrough
    /\ UNCHANGED <<BatchPages, LeaveService, req, hops>>

\* the browser requests the location of a redirect, its session cookie as
\* before
followRedirect ==
    /\ response.kind = "redirect"
    /\ hops < MaxHops
    /\ req' = [pathname |-> response.pathname, search |-> response.search,
               session |-> req.session]
    /\ response' = Awaited
    /\ hops' = hops + 1
    /\ UNCHANGED <<BatchPages, LeaveService>>

InitMiddleware ==
    /\ NoPage
    /\ NoLeave
    /\ NoTraffic

NextMiddleware == navigate \/ middleware \/ serveUnmatched \/ followRedirect

SpecMiddleware == InitMiddleware /\ [][NextMiddleware]_vars

(***************************************************************************)
(* Properties.                                                              *)
(***************************************************************************)
\* the day number of an ISO date string: the chronological order
DayNumber(iso) == DaysFromCivil(iso[1], iso[2], iso[3])

ChronAscending(s) ==
    \A i \in 1 .. Len(s) - 1 : DayNumber(s[i]) < DayNumber(s[i + 1])

PreviewDates == [i \in DOMAIN previewAssignments |-> previewAssignments[i].date]

\* the number of dates of the current date set: the selected dates of the
\* calendar variant, the dates generateDates gives in the weekday variant
DateSetSize ==
    IF variant = "calendar" THEN Cardinality(Range(selectedDates))
    ELSE Len(GeneratedDates[tz, startDate, endDate, dayOfWeek])

\* the roster member the round-robin gives the date at position i (1-based)
RoundRobin(i) == selectedMemberIds[((i - 1) % Len(selectedMemberIds)) + 1]

\* C1: in both variants, whenever the preview is not empty, the entry at
\* 0-based position i has the member id selectedMemberIds[i mod |roster|].
RotationFollowsRoster ==
    Len(previewAssignments) > 0 =>
        \A i \in DOMAIN previewAssignments :
            previewAssignments[i].memberId = RoundRobin(i)

\* the calendar variant shows three dates rotated over a roster of two
WitnessRotationWraps ==
    /\ variant = "calendar"
    /\ phase = "ready"
    /\ Len(previewAssignments) = 3
    /\ Len(selectedMemberIds) = 2

\* C2: with a service type chosen, a roster that is not empty and a date set
\* that is not empty, the preview has one entry for each date of the date
\* set, in ascending date order, every date exactly once.
PreviewCoversDateSet ==
    (serviceTypeId # "" /\ Len(selectedMemberIds) > 0 /\ DateSetSize > 0) =>
        /\ Len(previewAssignments) = DateSetSize
        /\ ChronAscending(PreviewDates)
        /\ IF variant = "calendar"
           THEN Range(PreviewDates) = Range(selectedDates)
           ELSE PreviewDates = GeneratedDates[tz, startDate, endDate, dayOfWeek]

\* the weekday variant shows at least four dates for a roster of three
WitnessPreviewCoversDateSet ==
    /\ variant = "weekday"
    /\ phase = "ready"
    /\ showPreview
    /\ serviceTypeId # ""
    /\ Len(selectedMemberIds) = 3
    /\ Len(previewAssignments) >= 4

\* C3: where the rotation loop runs (a service type is chosen and the roster
\* has n >= 1 distinct members), the member at 0-based roster position k is
\* assigned floor(d / n) of the d dates, and one more if k < d mod n.
AssignmentCounts ==
    (phase = "evaluated" /\ serviceTypeId # "" /\ Len(selectedMemberIds) >= 1) =>
        LET d == DateSetSize
            n == Len(selectedMemberIds)
        IN  \A k \in 1 .. n :
                Cardinality({i \in DOMAIN previewAssignments :
                    previewAssignments[i].memberId = selectedMemberIds[k]})
                = (d \div n) + (IF k - 1 < d % n THEN 1 ELSE 0)

\* five dates over a roster of three: the first two members get two dates
WitnessUnevenCounts ==
    /\ phase = "evaluated"
    /\ serviceTypeId # ""
    /\ Len(selectedMemberIds) = 3
    /\ DateSetSize = 5
    /\ Len(previewAssignments) = 5

\* C4: the rotation gives the empty preview whenever the roster is empty or
\* the date set is empty, whatever the other input is.
EmptyInputsGiveEmptyPreview ==
    (phase = "evaluated" /\ (Len(selectedMemberIds) = 0 \/ DateSetSize = 0)) =>
        previewAssignments = <<>>

\* the calendar rotation evaluated on three dates and an empty roster
WitnessEmptyRoster ==
    /\ phase = "evaluated"
    /\ variant = "calendar"
    /\ serviceTypeId # ""
    /\ Len(selectedMemberIds) = 0
    /\ Len(selectedDates) = 3

\* C5 as stated: in every state of the loaded page the preview has as many
\* entries as the current date set has dates.
PreviewLengthEqualsDateSet ==
    phase # "loading" => Len(previewAssignments) = DateSetSize

\* C5 as amended: in every state of the page the preview has as many entries
\* as the current date set has dates when a service type is chosen and the
\* roster is not empty, and no entry otherwise.
PreviewLengthOrEmpty ==
    Len(previewAssignments) =
        IF serviceTypeId # "" /\ Len(selectedMemberIds) > 0 THEN DateSetSize
        ELSE 0

\* the weekday variant after the weekday was changed: five dates previewed
WitnessPreviewLength ==
    /\ variant = "weekday"
    /\ phase = "ready"
    /\ dayOfWeek = 3
    /\ Len(selectedMemberIds) = 2
    /\ Len(previewAssignments) = 5

\* the dates from start to end, both included, that fall on weekday dow, in
\* ascending order
ExpectedWeekdayDates(start, end, dow) ==
    LET days == {n \in DayNumber(start) .. DayNumber(end) : (n + 4) % 7 = dow}
    IN  [i \in 1 .. Cardinality(days) |->
            CivilFromDays(CHOOSE n \in days :
                              Cardinality({m \in days : m < n}) = i - 1)]

\* C6: generateDates(startDate, endDate, dayOfWeek) returns exactly the dates
\* from startDate to endDate, both included, whose day of the week is
\* dayOfWeek, in ascending order and without duplicates.
GenerateDatesMatchesCalendar ==
    (/\ phase = "evaluated"
     /\ variant = "weekday"
     /\ startDate # <<>>
     /\ endDate # <<>>) =>
        generateDates(tz, startDate, endDate, dayOfWeek)
            = ExpectedWeekdayDates(startDate, endDate, dayOfWeek)

\* C7: in the calendar variant the date set used for the assignment is the
\* set of dates toggled an odd number of times, without duplicates and in
\* ascending order, whatever the order of the toggles was.
DateSetIsOddToggles ==
    variant = "calendar" =>
        LET dates == SortedSelection(selectedDates)
        IN  /\ Range(dates) = toggledOdd
            /\ Len(dates) = Cardinality(toggledOdd)
            /\ ChronAscending(dates)
            /\ Len(previewAssignments) > 0 => PreviewDates = dates

\* three dates toggled on in an order that is not the ascending one
WitnessToggledOutOfOrder ==
    /\ variant = "calendar"
    /\ phase = "ready"
    /\ Len(selectedDates) = 3
    /\ ~ChronAscending(selectedDates)
    /\ Len(previewAssignments) = 3

\* C8: the roster has no duplicate id, holds exactly the checked members, and
\* lists them in the order of their most recent check.
RosterIsCheckOrder ==
    /\ NoDuplicates(selectedMemberIds)
    /\ Range(selectedMemberIds) = {m \in MemberIds : checkRank[m] > 0}
    /\ \A i \in DOMAIN selectedMemberIds : checkRank[selectedMemberIds[i]] = i

\* all three members checked, the first of the name order last
WitnessRosterNotNameOrder ==
    /\ phase = "ready"
    /\ Len(selectedMemberIds) = 3
    /\ selectedMemberIds[3] = members[1].id

\* the name the member list holds for a member id
LoadedName(memberId) == (CHOOSE m \in Range(members) : m.id = memberId).name

IsLoaded(memberId) == \E m \in Range(members) : m.id = memberId

\* C9: where the rotation loop runs and a roster id is absent from the member
\* list, the preview still has one entry for each date, every entry has the
\* roster id the round-robin gives it, the entries of absent members have the
\* placeholder name and all other entries the loaded name.
PlaceholderForAbsentMember ==
    (/\ phase = "evaluated"
     /\ serviceTypeId # ""
     /\ \E i \in DOMAIN selectedMemberIds : ~IsLoaded(selectedMemberIds[i])) =>
        /\ Len(previewAssignments) = DateSetSize
        /\ \A i \in DOMAIN previewAssignments :
              /\ previewAssignments[i].memberId = RoundRobin(i)
              /\ previewAssignments[i].memberName =
                     IF IsLoaded(RoundRobin(i)) THEN LoadedName(RoundRobin(i))
                     ELSE Placeholder

\* a roster of a loaded member and an absent one, rotated over three dates
WitnessAbsentMember ==
    /\ phase = "evaluated"
    /\ serviceTypeId # ""
    /\ members = LoadedMembers
    /\ Len(selectedMemberIds) = 2
    /\ ~IsLoaded(selectedMemberIds[2])
    /\ IsLoaded(selectedMemberIds[1])
    /\ Len(previewAssignments) >= 3

\* every order in which the dates of S can have been inserted into the Set
InsertionOrders(S) ==
    {order \in DistinctSeqsOf(S, Cardinality(S)) : Len(order) = Cardinality(S)}

\* C10: the preview depends on the service type, the date set, the roster
\* and the member list alone: in every state of the page, whatever toggles,
\* previews and commit attempts led to it, the preview shown is the one a
\* fresh evaluation gives for the same date set in any insertion order.
PreviewIsHistoryFree ==
    IF variant = "calendar"
    THEN \A order \in InsertionOrders(Range(selectedDates)) :
             previewAssignments =
                 previewAssignmentsCalendar(serviceTypeId, order,
                                            selectedMemberIds, members)
    ELSE previewAssignments =
             previewAssignmentsWeekday(serviceTypeId, startDate, endDate,
                                       dayOfWeek, selectedMemberIds, members)

\* after a failed commit, three dates selected in an order that is not the
\* ascending one are previewed
WitnessHistory ==
    /\ variant = "calendar"
    /\ phase = "ready"
    /\ error # ""
    /\ ~submitting
    /\ Len(selectedDates) = 3
    /\ ~ChronAscending(selectedDates)
    /\ Len(previewAssignments) = 3

(***************************************************************************)
(* The commit.                                                              *)
(***************************************************************************)
\* a click on the confirm button takes place in this step
Clicked == confirms' = confirms + 1

\* C11: a confirm that passes the validation issues exactly one
\* createBatchServiceAssignments call, and the row list of that call has one
\* row for each preview entry, in the preview's order; the row carries the
\* page's org id, the service type chosen at that moment, the entry's memberId
\* as member_id, the entry's date as service_date and the status "scheduled".
ConfirmedCommitSendsPreview ==
    [][(Clicked /\ submitting') =>
          /\ calls' = calls + 1
          /\ Len(requests') = Len(requests) + 1
          /\ SubSeq(requests', 1, Len(requests)) = requests
          /\ LET rows == requests'[Len(requests')]
             IN  /\ Len(rows) = Len(previewAssignments)
                 /\ \A i \in DOMAIN rows :
                       /\ rows[i].org_id = orgId
                       /\ rows[i].service_type_id = serviceTypeId
                       /\ rows[i].member_id = previewAssignments[i].memberId
                       /\ rows[i].service_date = previewAssignments[i].date
                       /\ rows[i].status = "scheduled"
                       /\ DOMAIN rows[i] = {"org_id", "service_type_id",
                                            "member_id", "service_date",
                                            "status"}]_vars

\* a call in flight for two dates served by two different members, made by a
\* page whose service type is not the first of the list
WitnessBatchInFlight ==
    /\ Len(requests) = 1
    /\ Len(requests[1]) = 2
    /\ requests[1][1].member_id # requests[1][2].member_id
    /\ requests[1][1].service_type_id = "t2"
    /\ calls = 1

\* C12: when a click on the confirm button finds no service type chosen, an
\* empty roster or an empty date set, handleSubmit issues no insert request,
\* shows an error message that is not empty and leaves the page not
\* submitting; no request ever carries an empty row list.
InvalidInputsSendNothing ==
    /\ [][(Clicked /\ (\/ serviceTypeId = ""
                       \/ Len(selectedMemberIds) = 0
                       \/ DateSetSize = 0)) =>
             /\ requests' = requests
             /\ calls' = calls
             /\ error' # ""
             /\ ~submitting'
             /\ ~pending']_vars
    /\ [](\A i \in DOMAIN requests : Len(requests[i]) > 0)

\* a confirm with a service type and a roster but an empty date set has been
\* turned down
WitnessEmptyDateSetRefused ==
    /\ confirms = 1
    /\ calls = 0
    /\ serviceTypeId # ""
    /\ Len(selectedMemberIds) > 0
    /\ DateSetSize = 0
    /\ error = "no dates"
    /\ ~submitting

\* the awaited call throws in this step
Failed == pending /\ ~pending' /\ thrown' # <<>>

\* what a failed call must leave as it was
FailureFrame ==
    /\ ~submitting'
    /\ phase' = phase
    /\ navigations' = navigations
    /\ UNCHANGED <<serviceTypeId, selectedDates, startDate, endDate, dayOfWeek,
                   showPreview, selectedMemberIds, previewAssignments, store>>

\* C13 as stated: when the bulk insert fails, submitting is reset to false,
\* the error message is the store error's message, no navigation happens, and
\* service type, date set, roster and preview are unchanged.
FailureShowsStoreMessage ==
    [][Failed => (FailureFrame /\ error' = thrown'[1])]_vars

\* C13: when the bulk insert fails, submitting is reset to false, the error
\* message is the store error's message or, when that message is empty, the
\* fixed text of the page, no navigation happens, and service type, date set,
\* roster and preview are unchanged, so that the same preview can be
\* confirmed again.
FailureReturnsToPreview ==
    [][Failed =>
          /\ FailureFrame
          /\ error' # ""
          /\ thrown'[1] # "" => error' = thrown'[1]
          /\ thrown'[1] = "" => error' = "create failed"]_vars

\* a failed call has left the page with its preview, the store's message shown
\* and the confirm button enabled
WitnessFailedCommit ==
    /\ thrown = <<"duplicate key value">>
    /\ error = "duplicate key value"
    /\ ~submitting
    /\ phase = "ready"
    /\ Len(previewAssignments) > 0
    /\ store = <<>>

\* C14: from one page instance at most one insert request is in flight at any
\* time, and while one is in flight no click starts another call.
AtMostOneInFlight ==
    /\ [](Len(requests) <= 1)
    /\ [][requests # <<>> => (~Clicked /\ calls' = calls)]_vars

\* a call is in flight, the button is disabled, and the click budget is not
\* used up
WitnessInFlightButtonDisabled ==
    /\ Len(requests) = 1
    /\ pending
    /\ ConfirmDisabled
    /\ phase = "ready"
    /\ confirms < MaxConfirms

\* C15: every insert request is caused by one click on the confirm button: a
\* step issues a request only if it is a click, and then issues one; so the
\* requests issued never exceed the clicks, and a failed call leaves no
\* request in flight and issues none.
NoAutomaticRetry ==
    /\ [](calls <= confirms)
    /\ [][calls' # calls => (Clicked /\ calls' = calls + 1)]_vars
    /\ [][Failed => (requests' = <<>> /\ calls' = calls)]_vars

\* a call has failed and nothing is in flight: the one request of the one
\* click is all that was issued
WitnessFailedNotRetried ==
    /\ thrown # <<>>
    /\ requests = <<>>
    /\ ~pending
    /\ confirms = 1
    /\ calls = 1
    /\ phase = "ready"

(***************************************************************************)
(* The preview as a derived value.                                          *)
(***************************************************************************)
\* C16: in every reachable state of either variant the preview list, which is
\* what is displayed and what a confirm would map to rows, equals the rotation
\* computed from the current service type, the current date-set parameters and
\* the current roster.
PreviewNeverStale ==
    /\ previewAssignments = CurrentRotation
    /\ assignments = assignmentsOf(orgId, serviceTypeId, CurrentRotation)

\* the calendar page shows a preview of two dates for a roster of two with the
\* second service type: whatever the last change was, the preview was on
\* screen when it was made
WitnessChangedWhileShown ==
    /\ variant = "calendar"
    /\ phase = "ready"
    /\ serviceTypeId = "t2"
    /\ Len(selectedDates) = 2
    /\ Len(selectedMemberIds) = 2
    /\ Len(previewAssignments) = 2
    /\ previewAssignments[2].memberId = selectedMemberIds[2]

(***************************************************************************)
(* The table.                                                               *)
(***************************************************************************)
\* C17: every commit attempt is all-or-nothing: the page sends the rows of an
\* attempt as one request, and a step of this page either appends all of them
\* to the table, in order, or leaves the table as it is, which is what the
\* step of a failed call does.
AllOrNothing ==
    /\ [](\A i \in DOMAIN requests : requests[i] = attempt)
    /\ [][otherCommits' = otherCommits =>
             (store' = store \/ store' = store \o attempt)]_vars
    /\ [][Failed => store' = store]_vars

\* the insert of a batch of two rows has succeeded: both rows are in the table
WitnessWholeBatchPersisted ==
    /\ phase = "left"
    /\ navigations = 1
    /\ Len(attempt) = 2
    /\ store = attempt

\* the awaited call resolves in this step
Succeeded == pending /\ ~pending' /\ thrown' = <<>>

\* C18: when the bulk insert succeeds the page calls router.push("/services"),
\* once; from then on submitting stays true, which keeps the confirm button
\* disabled, and the page issues no further insert request.
SuccessTerminates ==
    /\ [](navigations <= 1)
    /\ [](navigations = 1 => (phase = "left" /\ submitting /\ requests = <<>>))
    /\ [][Succeeded => navigations' = navigations + 1]_vars
    /\ [][navigations' # navigations => Succeeded]_vars
    /\ [][navigations = 1 => (~Clicked /\ calls' = calls /\ submitting')]_vars

\* the page has navigated after its first click, with clicks to spare
WitnessNavigatedOnce ==
    /\ navigations = 1
    /\ phase = "left"
    /\ submitting
    /\ confirms = 1
    /\ confirms < MaxConfirms
    /\ store = attempt

(***************************************************************************)
(* The preview panel of the weekday variant.                                *)
(***************************************************************************)
\* C19: in the weekday variant the step that takes the shown preview off the
\* screen (reconfigure) changes the visibility flag and nothing else: service
\* type, start date, end date, weekday, roster and the derived preview are as
\* before; and the step that shows the preview changes nothing but the flag
\* either, so that showing it again yields the identical list.
ReconfigureChangesOnlyFlag ==
    [][(variant = "weekday" /\ showPreview' # showPreview) =>
          UNCHANGED <<variant, tz, now, phase, orgId, serviceTypes, members,
                      error, submitting, pending, serviceTypeId, monthCount,
                      calendarDates, selectedDates, startDate, endDate,
                      dayOfWeek, selectedMemberIds, previewAssignments,
                      toggledOdd, checkRank, Ledger>>]_vars

\* the weekday page is back at configuring after its preview was on screen (a
\* commit made from the panel has failed) and the preview is still derived
WitnessReconfigured ==
    /\ variant = "weekday"
    /\ ~showPreview
    /\ error = "duplicate key value"
    /\ Len(selectedMemberIds) = 2
    /\ Len(previewAssignments) > 2

\* how often the row occurs in the list of rows
Count(rows, row) == Cardinality({i \in DOMAIN rows : rows[i] = row})

\* the rows of a list of batches
RECURSIVE Flatten(_)
Flatten(batches) ==
    IF batches = <<>> THEN <<>> ELSE Head(batches) \o Flatten(Tail(batches))

\* the rows this page's successful commit has sent
OwnRows == IF navigations = 1 THEN attempt ELSE <<>>

\* C20: no conflict detection takes place at commit: a confirmed commit sends
\* a row for every preview entry whatever the table holds, the store can take
\* the insert whatever the table holds, and the table holds every row of every
\* successful commit, this page's and the other instances', as often as it
\* was sent: rows for the same service type, member and date are kept twice.
NoConflictDetection ==
    /\ [](requests # <<>> => ENABLED InsertOk)
    /\ [](/\ Len(store) = Len(Flatten(otherCommits)) + Len(OwnRows)
          /\ \A row \in Range(store) :
                Count(store, row) =
                    Count(Flatten(otherCommits), row) + Count(OwnRows, row))
    /\ [][(Clicked /\ submitting') =>
             Len(requests'[Len(requests')]) = Len(previewAssignments)]_vars

\* this page and another instance have both committed a batch of two rows, and
\* the table holds a row of the same service type, member and date twice
WitnessDuplicateRows ==
    /\ navigations = 1
    /\ Len(otherCommits) = 1
    /\ Len(attempt) = 2
    /\ Len(store) = 4
    /\ \E i, j \in DOMAIN store : i < j /\ store[i] = store[j]

\* C21: in the weekday variant an empty date set is "nothing to preview" and
\* never an error: when endDate is before startDate, or no day from startDate
\* to endDate falls on the chosen weekday, generateDates returns the empty
\* list and the preview is empty, and no edit of the range or of the weekday
\* sets the error message.
EmptyDateSetIsNotAnError ==
    /\ [](/\ variant = "weekday"
          /\ phase = "ready"
          /\ startDate # <<>>
          /\ endDate # <<>>
          /\ ExpectedWeekdayDates(startDate, endDate, dayOfWeek) = <<>>
          => /\ GeneratedDates[tz, startDate, endDate, dayOfWeek] = <<>>
             /\ previewAssignments = <<>>)
    /\ [][(/\ variant = "weekday"
           /\ <<startDate, endDate, dayOfWeek>>'
                  # <<startDate, endDate, dayOfWeek>>)
          => error' = error]_vars

\* the month count months after month m of year y
MonthsLater(y, m, count) ==
    LET k == (m - 1) + count IN <<y + (k \div 12), (k % 12) + 1>>

\* every calendar day of the count months that start with the month of the
\* local date of t, in ascending order
ExpectedGrid(zone, t, count) ==
    LET today == LocalDate(zone, t)
        after == MonthsLater(today[1], today[2], count)
        first == DaysFromCivil(today[1], today[2], 1)
        last  == DaysFromCivil(after[1], after[2], 1) - 1
    IN  [i \in 1 .. last - first + 1 |-> CivilFromDays(first + i - 1)]

\* C22: in the calendar variant the grid for month count N is exactly every
\* calendar day of the N months starting at the first day of the current
\* month, each once and in ascending order, and datesByMonth groups each date
\* under its own calendar month.
CalendarGridIsTheMonths ==
    variant = "calendar" =>
        /\ calendarDates = ExpectedGrid(tz, now, monthCount)
        /\ LET groups == datesByMonth(tz, calendarDates)
           IN  \A key \in DOMAIN groups :
                   \A i \in DOMAIN groups[key] :
                       <<groups[key][i][1], groups[key][i][2]>> = key

\* C23: in the calendar variant, after any sequence of date toggles and
\* month-count changes, every date of the date set used for the preview and
\* for the commit is a date of the currently displayed calendar grid.
DateSetWithinGrid ==
    variant = "calendar" =>
        /\ Range(selectedDates) \subseteq Range(calendarDates)
        /\ Range(PreviewDates) \subseteq Range(calendarDates)

\* the step is a call of approveLeaveRequest, rejectLeaveRequest or
\* cancelLeaveRequest for the request id
ReviewOrCancelOf(id) ==
    \/ \E reviewerId \in LeaveUsers, note \in ApproveNotes :
          approveLeaveRequest(id, reviewerId, note)
    \/ \E reviewerId \in LeaveUsers, note \in RejectNotes :
          rejectLeaveRequest(id, reviewerId, note)
    \/ \E requesterId \in LeaveUsers : cancelLeaveRequest(id, requesterId)

\* C24: a call of approveLeaveRequest, rejectLeaveRequest or
\* cancelLeaveRequest for a request that is not pending throws and leaves the
\* row as it is; when calls run one after the other, a status only ever
\* changes from pending to approved, rejected or cancelled.
OnlyPendingIsDecided ==
    [][\A id \in DOMAIN leave_requests :
          /\ (leave_requests[id].status # "pending" /\ ReviewOrCancelOf(id))
                => /\ leaveThrown' # ""
                   /\ leave_requests'[id] = leave_requests[id]
          /\ leave_requests'[id].status # leave_requests[id].status
                => /\ leave_requests[id].status = "pending"
                   /\ leave_requests'[id].status
                          \in {"approved", "rejected", "cancelled"}]_vars

\* a decided request exists and a further call for it was refused
WitnessDecidedRefused ==
    /\ leaveThrown \in {AlreadyHandled, NotPending}
    /\ \E id \in DOMAIN leave_requests :
          leave_requests[id].status \in {"approved", "rejected", "cancelled"}

\* C25: approveLeaveRequest and rejectLeaveRequest throw when the reviewer is
\* the requester of the request, and in every reachable state a request that
\* is approved or rejected has a reviewer_id that is set and is not its
\* requester_id.
NoSelfReview ==
    /\ [](\A id \in DOMAIN leave_requests :
             leave_requests[id].status \in {"approved", "rejected"}
                => /\ leave_requests[id].reviewer_id # Null
                   /\ leave_requests[id].reviewer_id
                          # leave_requests[id].requester_id)
    /\ [][\A id \in DOMAIN leave_requests :
             LET own == leave_requests[id].requester_id
             IN  (\/ \E note \in ApproveNotes :
                        approveLeaveRequest(id, own, note)
                  \/ \E note \in RejectNotes :
                        rejectLeaveRequest(id, own, note))
                    => /\ leaveThrown' # ""
                       /\ leave_requests' = leave_requests]_vars

\* a request was approved by the other user after its requester's own attempt
\* to review a request was refused
WitnessSelfReviewRefused ==
    /\ leaveThrown = OwnRequest
    /\ \E id \in DOMAIN leave_requests :
          /\ leave_requests[id].status = "approved"
          /\ leave_requests[id].reviewer_id # leave_requests[id].requester_id

\* C27: under any interleaving of concurrent approveLeaveRequest,
\* rejectLeaveRequest and cancelLeaveRequest calls for the same request, the
\* status of the request changes at most once: an approved, rejected or
\* cancelled request is never overwritten with another status.
DecidedOnce ==
    [][\A id \in DOMAIN leave_requests :
          leave_requests[id].status \in {"approved", "rejected", "cancelled"}
             => leave_requests'[id].status = leave_requests[id].status]_vars

\* C26: cancelLeaveRequest(id, requesterId) throws and leaves the row as it is
\* when requesterId is not the requester of the request; a request becomes
\* cancelled only by a call of its requester, which changes the status and
\* nothing else, so that reviewer_id, reviewed_at and review_note stay unset.
OnlyRequesterCancels ==
    [][\A id \in DOMAIN leave_requests :
          LET row == leave_requests[id]
          IN  /\ \A userId \in LeaveUsers \ {row.requester_id} :
                    cancelLeaveRequest(id, userId)
                       => /\ leaveThrown' # ""
                          /\ leave_requests' = leave_requests
              /\ (leave_requests'[id].status = "cancelled"
                     /\ row.status # "cancelled")
                    => /\ cancelLeaveRequest(id, row.requester_id)
                       /\ leave_requests'[id]
                              = [row EXCEPT !.status = "cancelled"]
                       /\ leave_requests'[id].reviewer_id = Null
                       /\ leave_requests'[id].reviewed_at = Null
                       /\ leave_requests'[id].review_note = Null]_vars

\* a request is cancelled and another user's attempt to cancel one was refused
WitnessCancelledByRequester ==
    /\ leaveThrown = NotOwnRequest
    /\ \E id \in DOMAIN leave_requests :
          leave_requests[id].status = "cancelled"

\* the sum of the days of the rows whose ids are in ids
RECURSIVE SumDays(_, _)
SumDays(table, ids) ==
    IF ids = {} THEN 0
    ELSE LET id == CHOOSE i \in ids : TRUE
         IN  table[id].days + SumDays(table, ids \ {id})

\* the days of leave type t the user has used in the year: the approved
\* requests of the user in the organisation that start in the year
DaysUsed(table, org, userId, year, t) ==
    SumDays(table, {id \in DOMAIN table :
                       /\ table[id].org_id = org
                       /\ table[id].requester_id = userId
                       /\ table[id].leave_type = t
                       /\ table[id].status = "approved"
                       /\ table[id].start_date[1] = year})

\* the configured quota of leave type t, 0 when the user has no quota row
QuotaOf(quotas, org, userId, year, t) ==
    LET rows == {q \in quotas : /\ q.org_id = org
                                /\ q.user_id = userId
                                /\ q.year = year}
    IN  IF rows = {} THEN 0
        ELSE LET q == CHOOSE row \in rows : TRUE
             IN  CASE t = "annual" -> q.annual_days
                   [] t = "sabbatical" -> q.sabbatical_days
                   [] t = "sick" -> q.sick_days
                   [] t = "special" -> q.special_days

Protected(pathname) ==
    /\ pathname # LoginPath
    /\ \A prefix \in {AuthPrefix, NextPrefix, FaviconPrefix, RobotsPrefix,
                      SitemapPrefix} : ~startsWith(pathname, prefix)

\* C29: a request without a session for a path that is not /login and starts
\* with none of /auth, /_next, /favicon.ico, /robots.txt, /sitemap.xml is
\* never passed through: the response is a redirect to /login whose
\* redirectedFrom parameter is the requested path.
UnauthenticatedIsRedirected ==
    (/\ response.kind # "awaited"
     /\ ~req.session
     /\ Protected(req.pathname))
        => /\ response.kind = "redirect"
           /\ response.pathname = LoginPath
           /\ "redirectedFrom" \in DOMAIN response.search
           /\ response.search["redirectedFrom"] = req.pathname

\* a request without a session for /login/x, which carried a redirectedFrom
\* parameter of its own, has been redirected to /login
WitnessRedirectedToLogin ==
    /\ ~req.session
    /\ req.pathname = LoginPath \o <<"/", "x">>
    /\ "redirectedFrom" \in DOMAIN req.search
    /\ response.kind = "redirect"
    /\ response.search["redirectedFrom"] = req.pathname

\* C30: redirects never loop: /login with a session is redirected to
\* /transactions with an empty query string, a protected path without a
\* session is redirected to /login, and with the session unchanged the
\* request that follows a redirect is passed through, so that a navigation
\* sees at most one redirect.
RedirectsEndAfterOne ==
    /\ hops <= 1
    /\ (hops = 1 /\ response.kind # "awaited") => response.kind = "next"
    /\ (/\ response.kind # "awaited"
        /\ req.session
        /\ req.pathname = LoginPath)
          => response = Redirect(TransactionsPath, NoSearch)
    /\ (/\ response.kind # "awaited"
        /\ ~req.session
        /\ Protected(req.pathname))
          => /\ response.kind = "redirect"
             /\ response.pathname = LoginPath

\* the redirect from /login to /transactions was followed and passed through
WitnessRedirectFollowed ==
    /\ hops = 1
    /\ req.session
    /\ req.pathname = TransactionsPath
    /\ req.search = NoSearch
    /\ response.kind = "next"

====
